---- MODULE Spec2Model ----
(***************************************************************************)
(* A model of episode_miner/event_tagger.py: the keyword, regex and event  *)
(* taggers, their two literal scanners, the conflict resolver and the      *)
(* word/compacted offset mapper.                                           *)
(*                                                                         *)
(* Python lists are sequences; list index k of the source is index k+1     *)
(* here.  Loop counters (bookmark, i) keep the source's 0-based values.    *)
(* A span or event is a record with the fields "start" and "end"; the      *)
(* offset mapper adds "wstart_raw", "wend_raw" and, when it computes them, *)
(* "wstart" and "cstart".                                                  *)
(***************************************************************************)
EXTENDS Integers, Sequences, FiniteSets, TLC

VARIABLES
    pc,                          \* position of the modelled call
    events,                      \* the list handed to _resolve_conflicts / _event_intervals
    conflict_resolving_strategy, \* self.conflict_resolving_strategy
    result,                      \* the list the call returns
    word_spans,                  \* text.word_spans: <<start, end>> of every word
    text,                        \* text.text, a sequence of characters
    cls,                         \* the class of the tagger object
    keyword_sequence,            \* self.keyword_sequence / regex_sequence / event_vocabulary
    mapping,                     \* self.mapping
    has_map,                     \* whether the attribute self.map was assigned
    search_method,               \* self.search_method
    ahocorasick_automaton,       \* self.ahocorasick_automaton
    error,                       \* the exception the modelled call raised, "none" if none
    naive_events,                \* outcome of the naive scanner
    automaton_events,            \* outcome of the automaton scanner
    call_pc,                     \* per concurrent tag call: its position in lines 73-84
    call_index,                  \* per concurrent tag call: index of the for loop of line 77
    call_scan,                   \* per concurrent tag call: the automaton its scan ran on
    builders,                    \* the calls that executed line 76
    first_caller,                \* the call that entered tag first, 0 before any
    overlapped                   \* whether a call entered tag while another was inside

pipelineVars == <<events, conflict_resolving_strategy, result, word_spans>>
taggerVars == <<cls, keyword_sequence, mapping, has_map, search_method,
                ahocorasick_automaton>>
scanVars == <<naive_events, automaton_events>>
callVars == <<call_pc, call_index, call_scan, builders, first_caller, overlapped>>

vars == <<pc, events, conflict_resolving_strategy, result, word_spans, text, cls,
          keyword_sequence, mapping, has_map, search_method, ahocorasick_automaton,
          error, naive_events, automaton_events, call_pc, call_index, call_scan,
          builders, first_caller, overlapped>>

\* line 61: self.ahocorasick_automaton = None
None == [kind |-> "None", words |-> {}]

\* a scanner that has not run
Pending == [status |-> "pending", events |-> <<>>]

\* the two tag calls that may run at the same time
Calls == {1, 2}

\* no tag call has started
NoCalls ==
    /\ call_pc = [c \in Calls |-> "idle"]
    /\ call_index = [c \in Calls |-> 0]
    /\ call_scan = [c \in Calls |-> [automaton |-> None, outcome |-> Pending]]
    /\ builders = {}
    /\ first_caller = 0
    /\ overlapped = FALSE

\* the variables of the tagger object and of the scanners, where no tagger
\* object takes part
NoTagger ==
    /\ NoCalls
    /\ text = <<>>
    /\ cls = "none"
    /\ keyword_sequence = <<>>
    /\ mapping = FALSE
    /\ has_map = FALSE
    /\ search_method = "none"
    /\ ahocorasick_automaton = None
    /\ error = "none"
    /\ naive_events = Pending
    /\ automaton_events = Pending

(***************************************************************************)
(* Bounds                                                                  *)
(***************************************************************************)
\* character offsets of the lists given in (start, end) order: 0..MaxPos
MaxPos == 5
\* longest list of spans given in (start, end) order
MaxEvents == 4
\* character offsets of the lists given in arbitrary order: 0..MaxShufflePos
MaxShufflePos == 3
\* longest list of spans given in arbitrary order
MaxShuffled == 3

START == "start"
END == "end"

Span(s, e) == [start |-> s, end |-> e]

\* spec.md section 3: a span is half-open, start < end
SpansWithin(n) == {sp \in [start : 0..n, end : 0..n] : sp.start < sp.end}

Spans == SpansWithin(MaxPos)

RECURSIVE SeqsUpTo(_, _)
SeqsUpTo(S, n) ==
    IF n = 0 THEN {<<>>}
    ELSE LET shorter == SeqsUpTo(S, n - 1)
         IN  shorter \cup {Append(q, x) : q \in {r \in shorter : Len(r) = n - 1}, x \in S}

Last(s) == s[Len(s)]

\* the order of (start, end) pairs
SpanLeq(a, b) == a.start < b.start \/ (a.start = b.start /\ a.end <= b.end)

\* the lists over S of length at most n that are in (start, end) order
RECURSIVE SortedSeqsUpTo(_, _)
SortedSeqsUpTo(S, n) ==
    IF n = 0 THEN {<<>>}
    ELSE LET shorter == SortedSeqsUpTo(S, n - 1)
             longest == {r \in shorter : Len(r) = n - 1}
         IN  shorter \cup
             {Append(p[1], p[2]) :
                p \in {pp \in longest \X S : pp[1] = <<>> \/ SpanLeq(Last(pp[1]), pp[2])}}

DeleteAt(s, k) == SubSeq(s, 1, k - 1) \o SubSeq(s, k + 1, Len(s))

(***************************************************************************)
(* list.sort(key=...): a stable sort on one field.                         *)
(***************************************************************************)
InsertByKey(sorted, x, f) ==
    LET k == Cardinality({i \in 1..Len(sorted) : sorted[i][f] <= x[f]})
    IN  SubSeq(sorted, 1, k) \o <<x>> \o SubSeq(sorted, k + 1, Len(sorted))

RECURSIVE SortByKey(_, _)
SortByKey(s, f) ==
    IF s = <<>> THEN <<>>
    ELSE InsertByKey(SortByKey(SubSeq(s, 1, Len(s) - 1), f), Last(s), f)

\* lines 87-88: sort by end, then (stably) by start
SortEvents(ev) == SortByKey(SortByKey(ev, END), START)

(***************************************************************************)
(* Strategy MAX, lines 92-103                                              *)
(***************************************************************************)
\* mutant: the first span of the first start-bucket is kept instead of the last
MaxBookmarkFirst(ev, bookmark) == 0

\* lines 94-96: skip to the last span that shares the first start
RECURSIVE MaxBookmark(_, _)
MaxBookmark(ev, bookmark) ==
    IF bookmark < Len(ev) - 1 /\ ev[1][START] = ev[bookmark + 2][START]
    THEN MaxBookmark(ev, bookmark + 1)
    ELSE bookmark

\* mutant: the test that the next span has another start is left out
RECURSIVE MaxLoopNoLookahead(_, _, _)
MaxLoopNoLookahead(ev, i, new_events) ==
    IF i >= Len(ev) - 1 THEN new_events
    ELSE MaxLoopNoLookahead(ev, i + 1,
            IF ev[i + 1][END] > Last(new_events)[END]
            THEN Append(new_events, ev[i + 1])
            ELSE new_events)

\* lines 98-100: for i in range(bookmark + 1, len(events) - 1)
RECURSIVE MaxLoop(_, _, _)
MaxLoop(ev, i, new_events) ==
    IF i >= Len(ev) - 1 THEN new_events
    ELSE MaxLoop(ev, i + 1,
            IF ev[i + 1][END] > Last(new_events)[END]
               /\ ev[i + 1][START] # ev[i + 2][START]
            THEN Append(new_events, ev[i + 1])
            ELSE new_events)

\* lines 101-102: the last span of the list
MaxLast(ev, new_events) ==
    IF Last(ev)[END] > Last(new_events)[END]
    THEN Append(new_events, Last(ev))
    ELSE new_events

ResolveMax(ev) ==
    IF Len(ev) < 2 THEN ev
    ELSE LET bookmark == MaxBookmark(ev, 0)
         IN  MaxLast(ev, MaxLoop(ev, bookmark + 1, <<ev[bookmark + 1]>>))

(***************************************************************************)
(* Strategy MIN, lines 105-114                                             *)
(***************************************************************************)
\* lines 107-108: drop trailing spans that share the start of their left neighbour
RECURSIVE MinTrimTail(_)
MinTrimTail(ev) ==
    IF Len(ev) > 1 /\ ev[Len(ev)][START] = ev[Len(ev) - 1][START]
    THEN MinTrimTail(SubSeq(ev, 1, Len(ev) - 1))
    ELSE ev

\* mutant: a span is dropped only when its end is strictly greater
RECURSIVE MinLoopStrict(_, _)
MinLoopStrict(ev, i) ==
    IF i <= 0 THEN ev
    ELSE MinLoopStrict(
            IF ev[i + 1][START] = ev[i][START] \/ ev[i + 1][END] > ev[i + 2][END]
            THEN DeleteAt(ev, i + 1)
            ELSE ev,
            i - 1)

\* lines 109-111: for i in range(len(events) - 2, 0, -1)
RECURSIVE MinLoop(_, _)
MinLoop(ev, i) ==
    IF i <= 0 THEN ev
    ELSE MinLoop(
            IF ev[i + 1][START] = ev[i][START] \/ ev[i + 1][END] >= ev[i + 2][END]
            THEN DeleteAt(ev, i + 1)
            ELSE ev,
            i - 1)

\* mutant: the comparison of the first two survivors is reversed
MinFirstReversed(ev) ==
    IF Len(ev) > 1 /\ ev[1][END] <= ev[2][END] THEN Tail(ev) ELSE ev

\* lines 112-113: the first span of the list
MinFirst(ev) ==
    IF Len(ev) > 1 /\ ev[1][END] >= ev[2][END] THEN Tail(ev) ELSE ev

ResolveMin(ev) ==
    IF Len(ev) < 2 THEN ev
    ELSE LET trimmed == MinTrimTail(ev)
         IN  MinFirst(MinLoop(trimmed, Len(trimmed) - 2))

\* lines 86-114
ResolveConflicts(ev, strategy) ==
    LET sorted == SortEvents(ev)
    IN  CASE strategy = "ALL" -> sorted
          [] strategy = "MAX" -> ResolveMax(sorted)
          [] strategy = "MIN" -> ResolveMin(sorted)

(***************************************************************************)
(* Specification of the resolver on arbitrary lists of spans               *)
(***************************************************************************)
Strategies == {"ALL", "MAX", "MIN"}

Range(s) == {s[i] : i \in 1..Len(s)}

\* the three spans [0,5) [0,3) [2,4) of the regression scenario of spec.md
\* section 8, in every order
ThreeSpans == {Span(0, 5), Span(0, 3), Span(2, 4)}

ThreeSpanLists == {q \in SeqsUpTo(ThreeSpans, 3) : Len(q) = 3 /\ Range(q) = ThreeSpans}

InitResolve ==
    /\ pc = "resolve"
    /\ events \in SeqsUpTo(SpansWithin(MaxShufflePos), MaxShuffled)
                  \cup SortedSeqsUpTo(Spans, MaxEvents)
                  \cup ThreeSpanLists
    /\ conflict_resolving_strategy \in Strategies
    /\ result = <<>>
    /\ word_spans = <<>>
    /\ NoTagger

Resolve ==
    /\ pc = "resolve"
    /\ result' = ResolveConflicts(events, conflict_resolving_strategy)
    /\ pc' = "resolved"
    /\ UNCHANGED <<events, conflict_resolving_strategy, word_spans>>
    /\ UNCHANGED <<text, error, taggerVars, scanVars, callVars>>

NextResolve == Resolve

SpecResolve == InitResolve /\ [][NextResolve]_vars

(***************************************************************************)
(* EventTagger._event_intervals, lines 314-340                             *)
(***************************************************************************)
WSTART_RAW == "wstart_raw"
WEND_RAW == "wend_raw"
WSTART == "wstart"
CSTART == "cstart"

\* text.word_spans[i][0], i counted from 0
WordStart(words, i) == words[i + 1][1]

\* lines 324-330: for i in range(bookmark, len(text.word_spans) - 1), for one
\* event; ws, we and bm are event[WSTART_RAW], event[WEND_RAW] and bookmark
RECURSIVE ScanWords(_, _, _, _, _, _)
ScanWords(words, event, i, ws, we, bm) ==
    IF i >= Len(words) - 1 THEN [wstart_raw |-> ws, wend_raw |-> we, bookmark |-> bm]
    ELSE LET hitStart == WordStart(words, i) <= event[START]
                         /\ event[START] < WordStart(words, i + 1)
             ws2 == IF hitStart THEN i ELSE ws
             bm2 == IF hitStart THEN i ELSE bm
             hitEnd == WordStart(words, i) < event[END]
                       /\ event[END] <= WordStart(words, i + 1)
         IN  IF hitEnd
             THEN [wstart_raw |-> ws2, wend_raw |-> i + 1, bookmark |-> bm2]
             ELSE ScanWords(words, event, i + 1, ws2, we, bm2)

\* mutant: a span that only touches its predecessor counts as overlapping
OverlapsPreviousTouching(last_end, event) == last_end >= event[START]

\* line 319
OverlapsPrevious(last_end, event) == last_end > event[START]

\* lines 318-330: the first loop over the events; k is the list index of the
\* next event, done the events already annotated
RECURSIVE ScanEvents(_, _, _, _, _, _, _)
ScanEvents(words, evs, k, bookmark, last_end, overlapping_events, done) ==
    IF k > Len(evs) THEN [events |-> done, overlapping_events |-> overlapping_events]
    ELSE LET event == evs[k]
             scan == ScanWords(words, event, bookmark, Len(words), 0, bookmark)
             annotated == [f \in DOMAIN event \cup {WSTART_RAW, WEND_RAW} |->
                              CASE f = WSTART_RAW -> scan.wstart_raw
                                [] f = WEND_RAW -> scan.wend_raw
                                [] OTHER -> event[f]]
         IN  ScanEvents(words, evs, k + 1, scan.bookmark, event[END],
                        overlapping_events \/ OverlapsPrevious(last_end, event),
                        Append(done, annotated))

\* line 336
WordShift(event) == event[WEND_RAW] - event[WSTART_RAW] - 1

\* mutant: the whole length of the span is taken out of the compacted axis
CharShiftWhole(event) == event[END] - event[START]

\* line 339
CharShift(event) == event[END] - event[START] - 1

\* lines 334-339: the second loop over the events
RECURSIVE CompactEvents(_, _, _, _, _)
CompactEvents(evs, k, w_shift, c_shift, done) ==
    IF k > Len(evs) THEN done
    ELSE LET event == evs[k]
             compacted == [f \in DOMAIN event \cup {WSTART, CSTART} |->
                              CASE f = WSTART -> event[WSTART_RAW] - w_shift
                                [] f = CSTART -> event[START] - c_shift
                                [] OTHER -> event[f]]
         IN  CompactEvents(evs, k + 1, w_shift + WordShift(event),
                           c_shift + CharShift(event), Append(done, compacted))

\* lines 314-340
EventIntervals(evs, words) ==
    LET scanned == ScanEvents(words, evs, 1, 0, 0, FALSE, <<>>)
    IN  IF ~scanned.overlapping_events
        THEN CompactEvents(scanned.events, 1, 0, 0, <<>>)
        ELSE scanned.events

(***************************************************************************)
(* Specification of the offset mapper on batches sorted by (start, end)    *)
(* and on word tables whose words do not overlap                           *)
(***************************************************************************)
\* longest batch handed to the offset mapper
MaxBatch == 3
\* character offsets of the batches and of their word tables: 0..MaxOffset
MaxOffset == 4

\* the spans a word can have in a text of the given length
WordSpanSet(length) == {w \in (0..length) \X (0..length) : w[1] < w[2]}

\* the word tables of at most n words for a text of the given length: words in
\* text order, each starting at or after the end of the one before
RECURSIVE WordTables(_, _)
WordTables(n, length) ==
    IF n = 0 THEN {<<>>}
    ELSE LET shorter == WordTables(n - 1, length)
             longest == {t \in shorter : Len(t) = n - 1}
         IN  shorter \cup
             {Append(p[1], p[2]) :
                p \in {pp \in longest \X WordSpanSet(length) :
                          pp[1] = <<>> \/ Last(pp[1])[2] <= pp[2][1]}}

\* the batch of tests/test_event_sequence.py lines 48-51 ('Arv kakskuemmend
\* viis on suurem kui seitse.', strategy ALL) with the offsets spec.md section 8
\* gives for it: events [4,21) and [36,42), words starting at 0, 4, 16, 21, 24,
\* 31, 36 and 42
ExampleEvents == <<Span(4, 21), Span(36, 42)>>
ExampleWords == << <<0, 3>>, <<4, 15>>, <<16, 20>>, <<21, 23>>, <<24, 30>>,
                   <<31, 34>>, <<36, 42>>, <<42, 43>> >>

InitIntervals ==
    /\ pc = "intervals"
    /\ \/ /\ events \in SortedSeqsUpTo(SpansWithin(MaxOffset), MaxBatch)
          /\ word_spans \in WordTables(MaxOffset, MaxOffset)
       \/ /\ events = ExampleEvents
          /\ word_spans = ExampleWords
    /\ conflict_resolving_strategy = "ALL"
    /\ result = <<>>
    /\ NoTagger

MapIntervals ==
    /\ pc = "intervals"
    /\ result' = EventIntervals(events, word_spans)
    /\ pc' = "mapped"
    /\ UNCHANGED <<events, conflict_resolving_strategy, word_spans>>
    /\ UNCHANGED <<text, error, taggerVars, scanVars, callVars>>

NextIntervals == MapIntervals

SpecIntervals == InitIntervals /\ [][NextIntervals]_vars

(***************************************************************************)
(* The two literal scanners, lines 64-84                                   *)
(***************************************************************************)
\* longest pattern
MaxPatLen == 2
\* longest text
MaxTextLen == 4
\* longest vocabulary
MaxVocab == 2

Alphabet == {"a", "b"}

Texts == SeqsUpTo(Alphabet, MaxTextLen)

\* the literal patterns; a span has start < end, so no pattern is empty
Patterns == SeqsUpTo(Alphabet, MaxPatLen) \ {<<>>}

\* text[i:i+len(entry)] == entry, i counted from 0
OccursAt(txt, entry, i) ==
    /\ i + Len(entry) <= Len(txt)
    /\ SubSeq(txt, i + 1, i + Len(entry)) = entry

\* str.find(entry, from): the lowest index at or after from where entry
\* occurs, -1 when there is none
Find(txt, entry, from) ==
    LET hits == {i \in from..Len(txt) : OccursAt(txt, entry, i)}
    IN  IF hits = {} THEN -1 ELSE CHOOSE i \in hits : \A j \in hits : i <= j

\* line 70: the search resumes one character after the start of the hit
NextSearchStart(entry, start) == start + 1

\* lines 67-70: the hits of one entry
RECURSIVE NaiveHits(_, _, _, _)
NaiveHits(txt, entry, start, found) ==
    IF start > -1
    THEN NaiveHits(txt, entry, Find(txt, entry, NextSearchStart(entry, start)),
                   Append(found, Span(start, start + Len(entry))))
    ELSE found

\* lines 64-71
RECURSIVE FindKeywordsNaive(_, _, _, _)
FindKeywordsNaive(seq, k, txt, found) ==
    IF k > Len(seq) THEN found
    ELSE FindKeywordsNaive(seq, k + 1, txt,
                           NaiveHits(txt, seq[k], Find(txt, seq[k], 0), found))

(***************************************************************************)
(* ahocorasick.Automaton as lines 75-80 use it.  The object is a trie of   *)
(* the added words; kind is EMPTY until a word is added, TRIE until        *)
(* make_automaton, AHOCORASICK afterwards.  make_automaton leaves an EMPTY *)
(* object as it is, and iter raises AttributeError on every object that is *)
(* not of kind AHOCORASICK.                                                *)
(***************************************************************************)
\* line 76: ahocorasick.Automaton(...)
NewAutomaton == [kind |-> "EMPTY", words |-> {}]

\* line 78: add_word
AddWord(automaton, word) == [kind |-> "TRIE", words |-> automaton.words \cup {word}]

\* lines 77-78: for entry in keyword_sequence: add_word(entry)
RECURSIVE AddWords(_, _, _)
AddWords(automaton, seq, k) ==
    IF k > Len(seq) THEN automaton
    ELSE AddWords(AddWord(automaton, seq[k]), seq, k + 1)

\* line 79: make_automaton
MakeAutomaton(automaton) ==
    IF automaton.kind = "TRIE" THEN [automaton EXCEPT !.kind = "AHOCORASICK"]
    ELSE automaton

\* lines 75-79
BuildAutomaton(seq) == MakeAutomaton(AddWords(NewAutomaton, seq, 1))

\* the nodes of the trie: the prefixes of the words
TrieNodes(words) ==
    UNION {{SubSeq(w, 1, k) : k \in 0..Len(w)} : w \in words}

\* the failure link: the longest proper suffix of a node that is a node
RECURSIVE Fail(_, _)
Fail(nodes, node) ==
    IF Len(node) <= 1 THEN <<>>
    ELSE LET shorter == Tail(node)
         IN  IF shorter \in nodes THEN shorter ELSE Fail(nodes, shorter)

\* the transition on character c: follow failure links until c can be read
RECURSIVE Goto(_, _, _)
Goto(nodes, node, c) ==
    IF Append(node, c) \in nodes THEN Append(node, c)
    ELSE IF node = <<>> THEN <<>>
    ELSE Goto(nodes, Fail(nodes, node), c)

\* the words that end at a node: the node and its failure chain; each is
\* reported as a span ending after text index idx
RECURSIVE Outputs(_, _, _, _, _)
Outputs(automaton, nodes, node, idx, found) ==
    IF node = <<>> THEN found
    ELSE Outputs(automaton, nodes, Fail(nodes, node), idx,
                 IF node \in automaton.words
                 THEN Append(found, Span(idx - Len(node) + 1, idx + 1))
                 ELSE found)

\* lines 80-83: one pass over the text, idx counted from 0
RECURSIVE IterText(_, _, _, _, _, _)
IterText(automaton, nodes, txt, idx, node, found) ==
    IF idx >= Len(txt) THEN found
    ELSE LET next == Goto(nodes, node, txt[idx + 1])
         IN  IterText(automaton, nodes, txt, idx + 1, next,
                      Outputs(automaton, nodes, next, idx, found))

\* lines 80-84: the scan with a given automaton object
ScanWithAutomaton(automaton, txt) ==
    IF automaton.kind # "AHOCORASICK"
    THEN [status |-> "AttributeError", events |-> <<>>]
    ELSE [status |-> "returned",
          events |-> IterText(automaton, TrieNodes(automaton.words), txt, 0, <<>>, <<>>)]

\* lines 75-79: the automaton after the lazy build
LazyAutomaton(automaton, seq) ==
    IF automaton = None THEN BuildAutomaton(seq) ELSE automaton

(***************************************************************************)
(* Specification of the two scanners on one vocabulary and one text        *)
(***************************************************************************)
InitScan ==
    /\ pc = "scan"
    /\ events = <<>>
    /\ conflict_resolving_strategy = "ALL"
    /\ result = <<>>
    /\ word_spans = <<>>
    /\ text \in Texts
    /\ cls = "KeywordTagger"
    /\ keyword_sequence \in SeqsUpTo(Patterns, MaxVocab)
    /\ mapping = FALSE
    /\ has_map = FALSE
    /\ search_method = "none"
    /\ ahocorasick_automaton = None
    /\ error = "none"
    /\ naive_events = Pending
    /\ automaton_events = Pending
    /\ NoCalls

\* lines 64-71: KeywordTagger._find_keywords_naive
ScanNaive ==
    /\ pc = "scan"
    /\ naive_events = Pending
    /\ naive_events' = [status |-> "returned",
                        events |-> FindKeywordsNaive(keyword_sequence, 1, text, <<>>)]
    /\ UNCHANGED <<pc, pipelineVars, text, error, taggerVars, automaton_events, callVars>>

\* lines 73-84: KeywordTagger._find_keywords_ahocorasick
ScanAutomaton ==
    /\ pc = "scan"
    /\ automaton_events = Pending
    /\ ahocorasick_automaton' = LazyAutomaton(ahocorasick_automaton, keyword_sequence)
    /\ automaton_events' = ScanWithAutomaton(ahocorasick_automaton', text)
    /\ UNCHANGED <<pc, pipelineVars, text, error, cls, keyword_sequence, mapping,
                   has_map, search_method, naive_events, callVars>>

NextScan == ScanNaive \/ ScanAutomaton

SpecScan == InitScan /\ [][NextScan]_vars

(***************************************************************************)
(* The three taggers: construction and tag                                 *)
(***************************************************************************)
TERM == "term"

\* sys.version_info.major of the interpreter (line 18)
PythonMajor == 3

\* longest text handed to tag
MaxTagText == 2

SearchMethods == {"naive", "ahocorasick"}

\* the validation shared by the constructors (lines 53-59, 254-260); a
\* constructor that has no search_method passes "naive"
ConfigurationError(method, strategy) ==
    IF method \notin SearchMethods THEN "ValueError"
    ELSE IF strategy \notin Strategies THEN "ValueError"
    ELSE IF method = "ahocorasick" /\ PythonMajor < 3 THEN "ValueError"
    ELSE "none"

\* lines 41-62: KeywordTagger.__init__; vocab.shape is "None", "list" or "dict"
KeywordInitError(vocab, method, strategy) ==
    IF vocab.shape = "None" THEN "ValueError"
    ELSE ConfigurationError(method, strategy)

\* lines 161-176: RegexTagger.__init__; vocab.shape is "None", "list" or
\* "DataFrame"
RegexInitError(vocab, strategy) ==
    IF vocab.shape = "None" THEN "ValueError"
    ELSE IF strategy \notin Strategies THEN "ValueError"
    ELSE "none"

ReservedKeys == {START, END, WSTART, "wend", CSTART}

\* lines 268-290: EventTagger._read_event_vocabulary; vocab.shape is "list" or
\* "other" (a type the loader does not support)
ReadEventVocabularyError(vocab) ==
    IF vocab.shape # "list" THEN "TypeError"
    ELSE IF Len(vocab.entries) = 0 THEN "none"
    ELSE IF DOMAIN vocab.entries[1] \cap ReservedKeys # {} THEN "KeyError"
    ELSE IF TERM \notin DOMAIN vocab.entries[1] THEN "KeyError"
    ELSE "none"

\* lines 252-264: EventTagger.__init__
EventInitError(vocab, method, strategy) ==
    IF ConfigurationError(method, strategy) # "none"
    THEN ConfigurationError(method, strategy)
    ELSE ReadEventVocabularyError(vocab)

\* lines 136-138: the value self.map holds for a pattern
LabelOf(pattern) == <<"label">> \o pattern

\* lines 134-138: item['type'] = self.map[text.text[item['start']:item['end']]]
RECURSIVE AttachTypes(_, _, _, _)
AttachTypes(evs, k, txt, done) ==
    IF k > Len(evs) THEN done
    ELSE LET item == evs[k]
             typed == [f \in DOMAIN item \cup {"type"} |->
                          IF f = "type"
                          THEN LabelOf(SubSeq(txt, item[START] + 1, item[END]))
                          ELSE item[f]]
         IN  AttachTypes(evs, k + 1, txt, Append(done, typed))

\* lines 128-131: the events of the selected scanner, and the automaton the
\* call leaves behind
FindKeywords(method, automaton, seq, txt) ==
    IF method = "ahocorasick"
    THEN LET built == LazyAutomaton(automaton, seq)
             scan == ScanWithAutomaton(built, txt)
         IN  [error |-> IF scan.status = "returned" THEN "none" ELSE scan.status,
              events |-> scan.events, automaton |-> built]
    ELSE [error |-> "none", events |-> FindKeywordsNaive(seq, 1, txt, <<>>),
          automaton |-> automaton]

\* lines 116-143: KeywordTagger.tag
KeywordTag(method, automaton, seq, strategy, isMapping, txt) ==
    LET found == FindKeywords(method, automaton, seq, txt)
        resolved == ResolveConflicts(found.events, strategy)
    IN  IF found.error # "none"
        THEN [error |-> found.error, events |-> <<>>, automaton |-> found.automaton]
        ELSE [error |-> "none",
              events |-> IF isMapping THEN AttachTypes(resolved, 1, txt, <<>>)
                         ELSE resolved,
              automaton |-> found.automaton]

\* line 206: re.finditer(r, text, overlapped=True) for a regex that is a
\* literal: every occurrence, overlapping ones included
RECURSIVE RegexFinditer(_, _, _)
RegexFinditer(r, txt, from) ==
    LET start == Find(txt, r, from)
    IN  IF start = -1 THEN <<>>
        ELSE <<Span(start, start + Len(r))>> \o RegexFinditer(r, txt, start + 1)

\* lines 208-220: the results of one regex; the literal has no named groups,
\* and the row self.map holds for it has the one column "type"
RegexResults(r, txt) ==
    LET hits == RegexFinditer(r, txt, 0)
    IN  [k \in 1..Len(hits) |->
            [start |-> hits[k][START], end |-> hits[k][END], regex |-> r,
             groups |-> <<>>, type |-> LabelOf(r)]]

\* lines 198-222: RegexTagger._match; the first match of any regex reads
\* self.map[r], an AttributeError when the attribute was never assigned
RECURSIVE RegexMatch(_, _, _, _, _)
RegexMatch(seq, k, txt, hasMap, matches) ==
    IF k > Len(seq) THEN [error |-> "none", events |-> matches]
    ELSE LET results == RegexResults(seq[k], txt)
         IN  IF results # <<>> /\ ~hasMap
             THEN [error |-> "AttributeError", events |-> <<>>]
             ELSE RegexMatch(seq, k + 1, txt, hasMap, matches \o results)

\* lines 178-196: RegexTagger.tag
RegexTag(seq, strategy, hasMap, txt) ==
    LET matched == RegexMatch(seq, 1, txt, hasMap, <<>>)
    IN  IF matched.error # "none" THEN matched
        ELSE [error |-> "none", events |-> ResolveConflicts(matched.events, strategy)]

\* lines 297-298, 310-311: entry.copy() updated with start and end
EventOf(entry, start, end) ==
    [f \in DOMAIN entry \cup {START, END} |->
        CASE f = START -> start
          [] f = END -> end
          [] OTHER -> entry[f]]

RECURSIVE EntryHits(_, _, _, _)
EntryHits(txt, entry, start, found) ==
    IF start > -1
    THEN EntryHits(txt, entry, Find(txt, entry[TERM], start + 1),
                   Append(found, EventOf(entry, start, start + Len(entry[TERM]))))
    ELSE found

\* lines 292-300: EventTagger._find_events_naive; entry[TERM] is a KeyError
\* for an entry without the key
RECURSIVE FindEventsNaive(_, _, _, _)
FindEventsNaive(vocab, k, txt, found) ==
    IF k > Len(vocab) THEN [error |-> "none", events |-> found]
    ELSE IF TERM \notin DOMAIN vocab[k] THEN [error |-> "KeyError", events |-> <<>>]
    ELSE FindEventsNaive(vocab, k + 1, txt,
                         EntryHits(txt, vocab[k], Find(txt, vocab[k][TERM], 0), found))

\* lines 306-307: add_word(entry[TERM], entry) for every entry; a KeyError
\* leaves the automaton with the words added before it
RECURSIVE AddEventWords(_, _, _)
AddEventWords(automaton, vocab, k) ==
    IF k > Len(vocab) THEN [error |-> "none", automaton |-> automaton]
    ELSE IF TERM \notin DOMAIN vocab[k] THEN [error |-> "KeyError", automaton |-> automaton]
    ELSE AddEventWords(AddWord(automaton, vocab[k][TERM]), vocab, k + 1)

\* the value the automaton holds for a term: the last entry added with it
ValueOf(vocab, term) ==
    vocab[CHOOSE k \in 1..Len(vocab) :
            /\ TERM \in DOMAIN vocab[k] /\ vocab[k][TERM] = term
            /\ \A j \in (k + 1)..Len(vocab) :
                  ~(TERM \in DOMAIN vocab[j] /\ vocab[j][TERM] = term)]

\* lines 302-312: EventTagger._find_events_ahocorasick
FindEventsAhocorasick(automaton, vocab, txt) ==
    LET build == IF automaton = None THEN AddEventWords(NewAutomaton, vocab, 1)
                 ELSE [error |-> "none", automaton |-> automaton]
        built == IF build.error = "none" /\ automaton = None
                 THEN MakeAutomaton(build.automaton) ELSE build.automaton
        scan == ScanWithAutomaton(built, txt)
    IN  IF build.error # "none"
        THEN [error |-> build.error, events |-> <<>>, automaton |-> built]
        ELSE IF scan.status # "returned"
        THEN [error |-> scan.status, events |-> <<>>, automaton |-> built]
        ELSE [error |-> "none", automaton |-> built,
              events |-> [k \in 1..Len(scan.events) |->
                            EventOf(ValueOf(vocab, SubSeq(txt, scan.events[k][START] + 1,
                                                          scan.events[k][END])),
                                    scan.events[k][START], scan.events[k][END])]]

\* lines 342-366: EventTagger.tag
EventTag(method, automaton, vocab, strategy, txt, words) ==
    LET found == IF method = "ahocorasick"
                 THEN FindEventsAhocorasick(automaton, vocab, txt)
                 ELSE FindEventsNaive(vocab, 1, txt, <<>>) @@ [automaton |-> automaton]
    IN  IF found.error # "none"
        THEN [error |-> found.error, events |-> <<>>, automaton |-> found.automaton]
        ELSE [error |-> "none", automaton |-> found.automaton,
              events |-> EventIntervals(ResolveConflicts(found.events, strategy), words)]

(***************************************************************************)
(* Specification of a tagger object: one constructor call, then one tag    *)
(***************************************************************************)
NoDuplicates(q) == \A i, j \in 1..Len(q) : i # j => q[i] # q[j]

KeywordVocabularies ==
    {[shape |-> "None", entries |-> <<>>]}
    \cup {[shape |-> "list", entries |-> q] : q \in SeqsUpTo(Patterns, MaxVocab)}
    \cup {[shape |-> "dict", entries |-> q] :
            q \in {r \in SeqsUpTo(Patterns, MaxVocab) : NoDuplicates(r)}}

RegexVocabularies ==
    {[shape |-> "None", entries |-> <<>>]}
    \cup {[shape |-> "list", entries |-> q] : q \in SeqsUpTo(Patterns, MaxVocab)}
    \cup {[shape |-> "DataFrame", entries |-> q] :
            q \in {r \in SeqsUpTo(Patterns, MaxVocab) : NoDuplicates(r)}}

\* the records of an event vocabulary: a term alone, a term with a reserved
\* key, a record without a term
VocabularyEntries ==
    {[term |-> p] : p \in Patterns}
    \cup {[term |-> <<"a">>, start |-> 0], [term |-> <<"a">>, cstart |-> 0],
          [type |-> "x"]}

EventVocabularies ==
    {[shape |-> "other", entries |-> <<>>]}
    \cup {[shape |-> "list", entries |-> q] : q \in SeqsUpTo(VocabularyEntries, MaxVocab)}

TagTexts == SeqsUpTo(Alphabet, MaxTagText)

InitTagger ==
    /\ pc = "new"
    /\ events = <<>>
    /\ conflict_resolving_strategy = "none"
    /\ result = <<>>
    /\ word_spans = <<>>
    /\ NoTagger

InitRaises(class, err) ==
    /\ pc' = "init_raised"
    /\ cls' = class
    /\ error' = err
    /\ UNCHANGED <<pipelineVars, text, keyword_sequence, mapping, has_map,
                   search_method, ahocorasick_automaton, scanVars, callVars>>

\* lines 25-62: KeywordTagger.__init__
ConstructKeywordTagger ==
    /\ pc = "new"
    /\ \E vocab \in KeywordVocabularies, method \in SearchMethods \cup {"other"},
          strategy \in Strategies \cup {"other"} :
          LET err == KeywordInitError(vocab, method, strategy)
          IN  IF err # "none" THEN InitRaises("KeywordTagger", err)
              ELSE /\ pc' = "ready"
                   /\ cls' = "KeywordTagger"
                   /\ keyword_sequence' = vocab.entries
                   /\ mapping' = (vocab.shape = "dict")
                   /\ has_map' = (vocab.shape = "dict")
                   /\ search_method' = method
                   /\ ahocorasick_automaton' = None
                   /\ conflict_resolving_strategy' = strategy
                   /\ UNCHANGED <<events, result, word_spans, text, error, scanVars, callVars>>

\* lines 147-176: RegexTagger.__init__
ConstructRegexTagger ==
    /\ pc = "new"
    /\ \E vocab \in RegexVocabularies, strategy \in Strategies \cup {"other"} :
          LET err == RegexInitError(vocab, strategy)
          IN  IF err # "none" THEN InitRaises("RegexTagger", err)
              ELSE /\ pc' = "ready"
                   /\ cls' = "RegexTagger"
                   /\ keyword_sequence' = vocab.entries
                   /\ mapping' = (vocab.shape = "DataFrame")
                   /\ has_map' = (vocab.shape = "DataFrame")
                   /\ conflict_resolving_strategy' = strategy
                   /\ UNCHANGED <<events, result, word_spans, text, error,
                                  search_method, ahocorasick_automaton, scanVars, callVars>>

\* lines 233-264: EventTagger.__init__
ConstructEventTagger ==
    /\ pc = "new"
    /\ \E vocab \in EventVocabularies, method \in SearchMethods \cup {"other"},
          strategy \in Strategies \cup {"other"} :
          LET err == EventInitError(vocab, method, strategy)
          IN  IF err # "none" THEN InitRaises("EventTagger", err)
              ELSE /\ pc' = "ready"
                   /\ cls' = "EventTagger"
                   /\ keyword_sequence' = vocab.entries
                   /\ search_method' = method
                   /\ ahocorasick_automaton' = None
                   /\ conflict_resolving_strategy' = strategy
                   /\ UNCHANGED <<events, result, word_spans, text, error, mapping,
                                  has_map, scanVars, callVars>>

\* the outcome of a tag call
TagReturns(outcome) ==
    /\ pc' = IF outcome.error = "none" THEN "tagged" ELSE "tag_raised"
    /\ error' = outcome.error
    /\ result' = outcome.events

\* lines 116-143: KeywordTagger.tag
TagKeywords ==
    /\ pc = "ready" /\ cls = "KeywordTagger"
    /\ \E txt \in TagTexts :
          LET outcome == KeywordTag(search_method, ahocorasick_automaton, keyword_sequence,
                                    conflict_resolving_strategy, mapping, txt)
          IN  /\ TagReturns(outcome)
              /\ text' = txt
              /\ ahocorasick_automaton' = outcome.automaton
    /\ UNCHANGED <<events, conflict_resolving_strategy, word_spans, cls,
                   keyword_sequence, mapping, has_map, search_method, scanVars, callVars>>

\* lines 178-196: RegexTagger.tag
TagRegexes ==
    /\ pc = "ready" /\ cls = "RegexTagger"
    /\ \E txt \in TagTexts :
          /\ TagReturns(RegexTag(keyword_sequence, conflict_resolving_strategy, has_map, txt))
          /\ text' = txt
    /\ UNCHANGED <<events, conflict_resolving_strategy, word_spans, taggerVars, scanVars, callVars>>

\* lines 342-366: EventTagger.tag
TagEvents ==
    /\ pc = "ready" /\ cls = "EventTagger"
    /\ \E txt \in TagTexts :
          \E words \in WordTables(Len(txt), Len(txt)) :
              LET outcome == EventTag(search_method, ahocorasick_automaton,
                                      keyword_sequence, conflict_resolving_strategy,
                                      txt, words)
              IN  /\ TagReturns(outcome)
                  /\ text' = txt
                  /\ word_spans' = words
                  /\ ahocorasick_automaton' = outcome.automaton
    /\ UNCHANGED <<events, conflict_resolving_strategy, cls, keyword_sequence,
                   mapping, has_map, search_method, scanVars, callVars>>

NextTagger ==
    \/ ConstructRegexTagger
    \/ ConstructKeywordTagger
    \/ ConstructEventTagger
    \/ TagRegexes
    \/ TagKeywords
    \/ TagEvents

SpecTagger == InitTagger /\ [][NextTagger]_vars

(***************************************************************************)
(* Two tag calls on one fresh KeywordTagger with search_method             *)
(* 'ahocorasick', lines 73-84 statement by statement.  Every statement     *)
(* reads and writes the attribute self.ahocorasick_automaton; no call      *)
(* keeps a reference of its own.  EventTagger._find_events_ahocorasick,    *)
(* lines 302-312, has the same statements.                                 *)
(***************************************************************************)
\* longest vocabulary of the shared tagger
MaxSharedVocab == 2

\* the patterns and the texts of the shared tagger
SharedPatterns == {<<"a">>, <<"b">>, <<"a", "b">>}
SharedTexts == {<<>>, <<"a", "b">>}

InitConcurrent ==
    /\ pc = "concurrent"
    /\ events = <<>>
    /\ conflict_resolving_strategy = "ALL"
    /\ result = <<>>
    /\ word_spans = <<>>
    /\ text \in SharedTexts
    /\ cls = "KeywordTagger"
    /\ keyword_sequence \in SeqsUpTo(SharedPatterns, MaxSharedVocab)
    /\ mapping = FALSE
    /\ has_map = FALSE
    /\ search_method = "ahocorasick"
    /\ ahocorasick_automaton = None
    /\ error = "none"
    /\ naive_events = Pending
    /\ automaton_events = Pending
    /\ NoCalls

Inside(c) == call_pc[c] \notin {"idle", "done"}

objectVars == <<pc, pipelineVars, text, error, cls, keyword_sequence, mapping, has_map,
                search_method, scanVars>>

\* lines 128-129: a call enters tag and _find_keywords_ahocorasick
EnterTag(c) ==
    /\ call_pc[c] = "idle"
    /\ call_pc' = [call_pc EXCEPT ![c] = "test"]
    /\ first_caller' = IF first_caller = 0 THEN c ELSE first_caller
    /\ overlapped' = (overlapped \/ \E d \in Calls \ {c} : Inside(d))
    /\ UNCHANGED <<objectVars, ahocorasick_automaton, call_index, call_scan, builders>>

\* mutant: the automaton is rebuilt by every call
NeedsBuildAlways(automaton) == TRUE

\* line 75: self.ahocorasick_automaton == None
NeedsBuild(automaton) == automaton = None

\* line 75: the test of the cache field
TestCache(c) ==
    /\ call_pc[c] = "test"
    /\ call_pc' = [call_pc EXCEPT ![c] =
                      IF NeedsBuild(ahocorasick_automaton) THEN "create" ELSE "scan"]
    /\ UNCHANGED <<objectVars, ahocorasick_automaton, call_index, call_scan, builders,
                   first_caller, overlapped>>

\* line 76: the field receives a new automaton without words
CreateAutomaton(c) ==
    /\ call_pc[c] = "create"
    /\ ahocorasick_automaton' = NewAutomaton
    /\ builders' = builders \cup {c}
    /\ call_index' = [call_index EXCEPT ![c] = 1]
    /\ call_pc' = [call_pc EXCEPT ![c] = "add"]
    /\ UNCHANGED <<objectVars, call_scan, first_caller, overlapped>>

\* lines 77-78: one turn of the loop adds one entry to the automaton in the field
AddEntry(c) ==
    /\ call_pc[c] = "add"
    /\ call_index[c] <= Len(keyword_sequence)
    /\ ahocorasick_automaton' = AddWord(ahocorasick_automaton, keyword_sequence[call_index[c]])
    /\ call_index' = [call_index EXCEPT ![c] = @ + 1]
    /\ UNCHANGED <<objectVars, call_pc, call_scan, builders, first_caller, overlapped>>

\* line 79: after the loop, make_automaton on the automaton in the field
Finalize(c) ==
    /\ call_pc[c] = "add"
    /\ call_index[c] > Len(keyword_sequence)
    /\ ahocorasick_automaton' = MakeAutomaton(ahocorasick_automaton)
    /\ call_pc' = [call_pc EXCEPT ![c] = "scan"]
    /\ UNCHANGED <<objectVars, call_index, call_scan, builders, first_caller, overlapped>>

\* lines 80-84: iter on the automaton in the field
ScanText(c) ==
    /\ call_pc[c] = "scan"
    /\ call_scan' = [call_scan EXCEPT ![c] =
                        [automaton |-> ahocorasick_automaton,
                         outcome |-> ScanWithAutomaton(ahocorasick_automaton, text)]]
    /\ call_pc' = [call_pc EXCEPT ![c] = "done"]
    /\ UNCHANGED <<objectVars, ahocorasick_automaton, call_index, builders,
                   first_caller, overlapped>>

NextConcurrent ==
    \E c \in Calls :
        \/ EnterTag(c)
        \/ TestCache(c)
        \/ CreateAutomaton(c)
        \/ AddEntry(c)
        \/ Finalize(c)
        \/ ScanText(c)

SpecConcurrent == InitConcurrent /\ [][NextConcurrent]_vars

(***************************************************************************)
(* Properties of the resolver                                              *)
(***************************************************************************)
\* a lies inside b and is another span
StrictlyInside(a, b) == a # b /\ b[START] <= a[START] /\ a[END] <= b[END]

Maximal(ev) == {a \in Range(ev) : \A b \in Range(ev) : ~StrictlyInside(a, b)}

\* C1: under MAX every two adjacent kept spans (s1,e1),(s2,e2) have s1 < s2
\* and e1 < e2.
C1_MaxChain ==
    (pc = "resolved" /\ conflict_resolving_strategy = "MAX") =>
        \A i \in 1..(Len(result) - 1) :
            /\ result[i][START] < result[i + 1][START]
            /\ result[i][END] < result[i + 1][END]

C1_Witness ==
    /\ pc = "resolved" /\ conflict_resolving_strategy = "MAX"
    /\ Len(events) = 4 /\ Len(result) = 3
    /\ \E i, j \in 1..Len(events) : i # j /\ events[i][START] = events[j][START]

\* C2: under MIN no kept span is a strict subset of another kept span, for
\* lists of every size.
C2_MinNoContainment ==
    (pc = "resolved" /\ conflict_resolving_strategy = "MIN") =>
        \A i, j \in 1..Len(result) : ~StrictlyInside(result[i], result[j])

C2_Witness ==
    /\ pc = "resolved" /\ conflict_resolving_strategy = "MIN"
    /\ Len(events) >= 3 /\ Len(result) = 2
    /\ \E i, j \in 1..Len(events) : StrictlyInside(events[i], events[j])
    /\ StrictlyInside(events[1], events[Len(events)])

IsThreeSpans == Len(events) = 3 /\ Range(events) = ThreeSpans

\* C3 as stated: the spans [0,5) [0,3) [2,4), in any order, reduce under MIN to
\* exactly one span.
C3_Original ==
    (pc = "resolved" /\ conflict_resolving_strategy = "MIN" /\ IsThreeSpans) =>
        Len(result) = 1

\* C3 amended: the spans [0,5) [0,3) [2,4), in any order, reduce under MIN to
\* exactly the two spans [0,3) and [2,4).
C3_MinThreeSpans ==
    (pc = "resolved" /\ conflict_resolving_strategy = "MIN" /\ IsThreeSpans) =>
        result = <<Span(0, 3), Span(2, 4)>>

C3_Witness ==
    /\ pc = "resolved" /\ conflict_resolving_strategy = "MIN"
    /\ events = <<Span(2, 4), Span(0, 5), Span(0, 3)>>
    /\ Len(result) = 2

\* C10: under MAX the kept spans are exactly the input spans that lie inside
\* no different input span, each kept once.
C10_MaxKeepsMaximal ==
    (pc = "resolved" /\ conflict_resolving_strategy = "MAX") =>
        /\ Range(result) = Maximal(events)
        /\ Cardinality(Range(result)) = Len(result)

C10_Witness ==
    /\ pc = "resolved" /\ conflict_resolving_strategy = "MAX"
    /\ Len(events) = 4 /\ Len(result) = 2
    /\ \E i, j \in 1..Len(events) : i # j /\ events[i] = events[j]
    /\ \E i, j \in 1..Len(events) : StrictlyInside(events[i], events[j])

(***************************************************************************)
(* Properties of the offset mapper                                         *)
(***************************************************************************)
Has(event, f) == f \in DOMAIN event

\* some two events of the batch, adjacent or not, overlap
SomeOverlap(evs) ==
    \E i, j \in 1..Len(evs) : i < j /\ evs[i][END] > evs[j][START]

\* C4: on a batch sorted by (start, end), if any two events overlap then no
\* event carries wstart or cstart; if no two events overlap then every event
\* carries both and each is non-decreasing along the list.
C4_CompactionOnlyWhenDisjoint ==
    pc = "mapped" =>
        /\ Len(result) = Len(events)
        /\ SomeOverlap(events) =>
               \A k \in 1..Len(result) :
                   ~Has(result[k], WSTART) /\ ~Has(result[k], CSTART)
        /\ ~SomeOverlap(events) =>
               /\ \A k \in 1..Len(result) :
                      Has(result[k], WSTART) /\ Has(result[k], CSTART)
               /\ \A k \in 1..(Len(result) - 1) :
                      /\ result[k][WSTART] <= result[k + 1][WSTART]
                      /\ result[k][CSTART] <= result[k + 1][CSTART]

\* the first and the third event overlap, the batch is left without wstart
C4_Witness ==
    /\ pc = "mapped" /\ Len(events) = 3
    /\ events[1][END] > events[3][START]
    /\ events[2][END] <= events[3][START]
    /\ ~Has(result[3], WSTART) /\ ~Has(result[3], CSTART)
    /\ Len(word_spans) >= 2

\* the sum of (event[hi] - event[lo] - 1) over the events before the k-th
RECURSIVE SumBefore(_, _, _, _)
SumBefore(evs, k, lo, hi) ==
    IF k <= 1 THEN 0
    ELSE SumBefore(evs, k - 1, lo, hi) + (evs[k - 1][hi] - evs[k - 1][lo] - 1)

\* C5: in an overlap-free batch the k-th event has cstart = start minus the sum
\* of (end - start - 1) over the events before it and wstart = wstart_raw minus
\* the sum of (wend_raw - wstart_raw - 1) over the events before it; the spans
\* [4,21) and [36,42) with word starts 0,4,16,21,24,31,36,42 get cstart 4 and
\* 20 and wstart 1 and 5.
C5_CompactedCoordinates ==
    (pc = "mapped" /\ ~SomeOverlap(events)) =>
        /\ Len(result) = Len(events)
        /\ \A k \in 1..Len(result) :
              /\ result[k][START] = events[k][START]
              /\ result[k][END] = events[k][END]
              /\ result[k][CSTART] = events[k][START] - SumBefore(events, k, START, END)
              /\ result[k][WSTART] =
                     result[k][WSTART_RAW] - SumBefore(result, k, WSTART_RAW, WEND_RAW)
        /\ (events = ExampleEvents /\ word_spans = ExampleWords) =>
              /\ result[1][CSTART] = 4 /\ result[2][CSTART] = 20
              /\ result[1][WSTART] = 1 /\ result[2][WSTART] = 5

C5_Witness ==
    /\ pc = "mapped"
    /\ events = ExampleEvents /\ word_spans = ExampleWords
    /\ result[1][WEND_RAW] = 3 /\ result[2][WSTART_RAW] = 6
    /\ result[2][CSTART] = 20 /\ result[2][WSTART] = 5

\* the index (from 0) of the word whose span holds position p, -1 when none
WordHolding(words, p) ==
    IF \E i \in 1..Len(words) : words[i][1] <= p /\ p < words[i][2]
    THEN (CHOOSE i \in 1..Len(words) : words[i][1] <= p /\ p < words[i][2]) - 1
    ELSE -1

\* C9: wstart_raw is the index of the word that holds start whenever there is
\* one (the last word included), wend_raw is one more than the index of the
\* word that holds the character before end whenever there is one; the
\* defaults appear only when no word holds that position.
C9_RawWordIndices ==
    pc = "mapped" =>
        \A k \in 1..Len(result) :
            LET ws == WordHolding(word_spans, events[k][START])
                we == WordHolding(word_spans, events[k][END] - 1)
            IN  /\ ws >= 0 => result[k][WSTART_RAW] = ws
                /\ we >= 0 => result[k][WEND_RAW] = we + 1

\* the same for the words that are not the last of the table
RawWordIndicesBeforeLast ==
    pc = "mapped" =>
        \A k \in 1..Len(result) :
            LET ws == WordHolding(word_spans, events[k][START])
                we == WordHolding(word_spans, events[k][END] - 1)
            IN  /\ (ws >= 0 /\ ws < Len(word_spans) - 1) => result[k][WSTART_RAW] = ws
                /\ (we >= 0 /\ we < Len(word_spans) - 1) => result[k][WEND_RAW] = we + 1

(***************************************************************************)
(* Properties of the scanners                                              *)
(***************************************************************************)
BothScanned == naive_events # Pending /\ automaton_events # Pending

\* C6: for every vocabulary of literal patterns and every text the naive
\* scanner and the automaton scanner return the same set of (start, end)
\* spans.
C6_ScannersAgree ==
    BothScanned =>
        /\ automaton_events.status = "returned"
        /\ Range(automaton_events.events) = Range(naive_events.events)

\* the same for the vocabularies that hold at least one pattern
ScannersAgreeOnNonEmptyVocabulary ==
    (BothScanned /\ keyword_sequence # <<>>) =>
        /\ automaton_events.status = "returned"
        /\ Range(automaton_events.events) = Range(naive_events.events)

(***************************************************************************)
(* Properties of the taggers                                               *)
(***************************************************************************)
Constructed == pc \in {"ready", "tagged", "tag_raised"}

WellFormedEntry(entry) ==
    TERM \in DOMAIN entry /\ DOMAIN entry \cap ReservedKeys = {}

\* C7: the constructor of EventTagger raises when any record of the
\* vocabulary, at any position, uses a reserved field name or lacks 'term';
\* no tag call is the first place where a malformed record raises.
C7_MalformedRecordRejectedAtConstruction ==
    (cls = "EventTagger" /\ Constructed) =>
        /\ \A k \in 1..Len(keyword_sequence) : WellFormedEntry(keyword_sequence[k])
        /\ ~(pc = "tag_raised" /\ error = "KeyError")

\* the same for the first record only
FirstRecordChecked ==
    (cls = "EventTagger" /\ Constructed /\ keyword_sequence # <<>>) =>
        WellFormedEntry(keyword_sequence[1])

\* C8: tag of a constructed KeywordTagger, RegexTagger or EventTagger never
\* raises, under every strategy; with an empty vocabulary or an empty text it
\* returns the empty list.
C8_TagNeverRaises ==
    /\ pc # "tag_raised"
    /\ (pc = "tagged" /\ (keyword_sequence = <<>> \/ text = <<>>)) => result = <<>>

\* tag raises only in the three ways named here
TagRaisesOnlyKnownWays ==
    pc = "tag_raised" =>
        \/ cls = "RegexTagger" /\ ~has_map /\ error = "AttributeError"
        \/ cls # "RegexTagger" /\ search_method = "ahocorasick"
           /\ keyword_sequence = <<>> /\ error = "AttributeError"
        \/ cls = "EventTagger" /\ error = "KeyError"
           /\ \E k \in 2..Len(keyword_sequence) : TERM \notin DOMAIN keyword_sequence[k]

(***************************************************************************)
(* Properties of the lazily built automaton under two tag calls            *)
(***************************************************************************)
\* the automaton has every pattern of the vocabulary and was finalized
FullyBuilt(automaton) == automaton = BuildAutomaton(keyword_sequence)

Scanned(c) == call_pc[c] = "done"

\* C11: two concurrent tag calls on a fresh tagger can reach a state where one
\* call found the cache field non-empty and scanned with an automaton that
\* lacks patterns or is not finalized (C11_Witness); when the calls are
\* serialized, the automaton is built exactly once, by the first call, and
\* every scan runs on the fully built automaton.
C11_SerializedCallsBuildOnce ==
    ~overlapped =>
        /\ \A c \in Calls : Scanned(c) => FullyBuilt(call_scan[c].automaton)
        /\ builders \subseteq {first_caller}
        /\ (\E c \in Calls : Scanned(c)) => builders = {first_caller}

\* the racy interleaving: a call that did not build found the field
\* non-empty and scanned an automaton that is not the fully built one
C11_Witness ==
    \E c \in Calls :
        /\ Scanned(c) /\ c \notin builders
        /\ overlapped
        /\ Cardinality(builders) = 1
        /\ Len(keyword_sequence) = 2
        /\ ~FullyBuilt(call_scan[c].automaton)
        /\ call_scan[c].automaton.words # {}
        /\ call_scan[c].automaton.words # Range(keyword_sequence)

\* a call that builds the automaton itself can still scan one that another
\* call has replaced or reopened
BuilderScansUnfinished ==
    \E c \in Calls :
        /\ Scanned(c) /\ c \in builders
        /\ ~FullyBuilt(call_scan[c].automaton)

====
